---- MODULE Spec2Model ----
(***************************************************************************)
(* tele_app.py: a FastAPI service that proxies phone authentication and    *)
(* story posting to a Telethon client held by one process-wide             *)
(* TelegramClientManager.                                                  *)
(*                                                                         *)
(* Every coroutine runs atomically between two awaits that suspend (calls  *)
(* into the external client); one action of the model is one such segment. *)
(* An external call is invoked in one action and returns in a later one,   *)
(* where its outcome is chosen and its effect on the transport happens.    *)
(* upload_image never suspends and shares nothing with the manager; it is  *)
(* one action, under a specification of its own.                           *)
(***************************************************************************)
EXTENDS Integers, Sequences, FiniteSets, TLC

\* ---------------------------------------------------------------- bounds
\* Number of coroutines that may be in flight at once.
NumTasks == 2
\* Total number of calls/requests started in one behaviour.
MaxReqs == 3
\* Longest original filename of an upload, in characters.
MaxNameLen == 3
\* Number of upload_image requests in one behaviour.
MaxUploads == 2

Tasks == 1..NumTasks

\* ---------------------------------------------------------------- values
\* Python's None; handles are numbered from 1 and application ids are
\* positive, so 0 is no handle and no application id.
None == 0
\* None where a string (app_hash) is expected.
NoneStr == "None"

\* Credentials a PhoneNumber payload may carry (app_id, app_hash).
Creds == { <<123, "abc">>, <<456, "def">> }

\* A phone_code_hash.
Token == "T1"
\* The phone_code_hash values the external service may issue.
Tokens == { Token, "T2" }
\* The file references upload_file may return.
FileRefs == { "file1", "file2" }
\* user.first_name of the authenticated user.
FirstName == "Ann"

\* The characters of an uploaded file's name: a letter, os.extsep, os.sep.
Chars == { "a", ".", "/" }
\* file.filename: any string of these characters.
Names == UNION { [1..n -> Chars] : n \in 0..MaxNameLen }

VARIABLES
  client,    \* client_manager.client: None or a handle (index into handles)
  app_id,    \* client_manager.app_id
  app_hash,  \* client_manager.app_hash
  handles,   \* every TelegramClient constructed so far, in order
  pc,        \* pc[t]: where coroutine t is suspended
  op,        \* op[t]: the function coroutine t is running
  args,      \* args[t]: the credentials coroutine t was called with
  entry,     \* entry[t]: the manager's fields when the call of t started
  target,    \* target[t]: the handle the pending external call was made on
  made,      \* made[t]: the handle this call's initialize_client constructed
  resp,      \* resp[t]: how the call ended (return value, exception, response)
  calls,     \* calls[t]: the external-client calls the current call of t
             \* made, in order, each with the handle and how it came back
  nreq,      \* number of calls started so far
  uploads,   \* the files upload_image has saved, in order: the original
             \* filename, the uuid4() drawn and the file_uri returned
  nuuid,     \* number of uuid4() values drawn so far
  upresp     \* the response of the last upload_image request

\* What upload_image works on; it shares nothing with the manager.
upl == << uploads, nuuid, upresp >>

vars == << client, app_id, app_hash, handles, pc, op, args, entry, target,
           made, resp, calls, nreq, upl >>

mgr == << client, app_id, app_hash >>

\* ------------------------------------------------------- results, errors
\* A normal return; detail is the returned text (as its fragments), value a
\* returned handle.
Ret(d, v) == [kind |-> "return", status |-> 200, detail |-> d, value |-> v]

\* raise HTTPException(status_code=s, detail=d)
HTTPExc(s, d) == [kind |-> "HTTPException", status |-> s, detail |-> d,
                  value |-> None]

\* An exception of class k raised by the external client (or by Python).
Exc(k, d) == [kind |-> k, status |-> 0, detail |-> d, value |-> None]

NoResp == [kind |-> "none", status |-> 0, detail |-> << >>, value |-> None]

\* issued_on: the handle the request's phone_code_hash was issued on, when
\* the caller took it from the generate_otp response it has just received.
NoArgs == [app_id |-> None, app_hash |-> NoneStr, phone_code_hash |-> NoneStr,
           issued_on |-> None]

\* The payload of a PhoneNumber request (without its phone).
CredArgs(c) == [NoArgs EXCEPT !.app_id = c[1], !.app_hash = c[2]]

\* The manager as __init__ leaves it.
NoMgr == << None, None, NoneStr >>

\* Decimal text of the status codes the program uses.
StatusStr(s) == CASE s = 400 -> "400" [] s = 401 -> "401" [] s = 500 -> "500"
                  [] OTHER -> "?"

\* str(e): an HTTPException prints as "<status>: <detail>", any other
\* exception as its message.
StrExc(e) == IF e.kind = "HTTPException"
             THEN << StatusStr(e.status), ": " >> \o e.detail
             ELSE e.detail

NotInitialized == HTTPExc(400, << "Client not initialized" >>)
TwoStepResponse ==
  HTTPExc(401, << "Two-step verification is enabled. Please provide the password." >>)
InvalidCodeResponse == HTTPExc(401, << "Invalid code provided." >>)
UnauthorizedExc == HTTPExc(401, << "Unauthorized. Please authenticate first." >>)

\* A failure of the external service (network fault and the like).
ExternalFailure == Exc("Exception", << "external failure" >>)
\* Calling a method on None.
AttributeError == Exc("AttributeError", << "'NoneType' object has no attribute" >>)

\* ------------------------------------------------ TelegramClientManager
\* get_client without its guard: whatever self.client holds is returned.
MgrGetClient_NoGuard(c) == Ret(<< >>, c)

\* get_client: the guard and the value returned.
MgrGetClient(c) == IF c = None THEN NotInitialized ELSE Ret(<< >>, c)

\* initialize_client that never tears the existing handle down.
InitTeardownNeeded_Never(c) == FALSE

\* initialize_client: `if self.client:` - an existing handle is torn down.
InitTeardownNeeded(c) == c # None

\* initialize_client that keeps the handle it already has (the assignment
\* of line 47 under an `if not self.client`).
InitAssign_KeepOld(a, h, new) == << IF client # None THEN client ELSE new, a, h >>

\* initialize_client that forgets to store the credentials.
InitAssign_NoCreds(a, h, new) == << new, app_id, app_hash >>

\* initialize_client: the manager's fields after the three assignments, new
\* being the handle just constructed.
InitAssign(a, h, new) == << new, a, h >>

\* disconnect without its guard: self.client.disconnect() is always called.
DisconnectNeeded_Always(c) == TRUE

\* disconnect: `if self.client:`.
DisconnectNeeded(c) == c # None

\* TelegramClient(session_file_path, app_id, app_hash): not connected yet.
NewHandle(a, h) == [app_id |-> a, app_hash |-> h, connected |-> FALSE,
                    closer |-> "none"]

\* Effect of a successful connect()/disconnect() on handle i; who records
\* which manager method closed the transport.
Connected(hs, i) == [hs EXCEPT ![i].connected = TRUE]
Disconnected(hs, i, who) ==
  [hs EXCEPT ![i].connected = FALSE, ![i].closer = who]

\* ------------------------------------------------------------- handlers
\* generate_otp without its try block: what was raised leaves the handler.
GenerateOtpExcept_Reraise(e) == e

\* generate_otp: `except Exception as e`.
GenerateOtpExcept(e) == HTTPExc(500, StrExc(e))

\* verify_otp with `except Exception` written first: it catches everything.
VerifyOtpExcept_GenericFirst(e) == HTTPExc(500, StrExc(e))

\* verify_otp whose first except clause raises the response of the second.
VerifyOtpExcept_SameDetail(e) ==
  CASE e.kind = "SessionPasswordNeededError" -> InvalidCodeResponse
    [] e.kind = "PhoneCodeInvalidError" -> InvalidCodeResponse
    [] OTHER -> HTTPExc(500, StrExc(e))

\* verify_otp: the three except clauses, in order.
VerifyOtpExcept(e) ==
  CASE e.kind = "SessionPasswordNeededError" -> TwoStepResponse
    [] e.kind = "PhoneCodeInvalidError" -> InvalidCodeResponse
    [] OTHER -> HTTPExc(500, StrExc(e))

\* generate_otp: the body returned, tok being result.phone_code_hash.
GenerateOtpReturn(tok) == Ret(<< tok >>, None)

\* verify_otp that leaves the name out of its message.
VerifyOtpReturn_NoName(name) == Ret(<< "Authenticated" >>, None)

\* verify_otp: the body returned, name being user.first_name.
VerifyOtpReturn(name) == Ret(<< "Authenticated as ", name >>, None)

\* send_story posting to everybody.
StoryPrivacyRules_AllowAll == << "InputPrivacyValueAllowAll" >>

\* send_story: privacy_rules of the SendStoryRequest.
StoryPrivacyRules == << "InputPrivacyValueAllowContacts" >>

\* send_story: `except Exception as e`.
SendStoryExcept(e) == HTTPExc(500, StrExc(e))

\* send_story without the authorization check.
StoryRejected_Never(authorized) == FALSE

\* send_story: `if not await client.is_user_authorized(): raise ...`.
StoryRejected(authorized) == ~authorized

\* How an exception leaves the function coroutine t runs: the endpoint's
\* except clauses translate it, a manager method lets it propagate.
Raised(o, e) ==
  CASE o = "generate_otp" -> GenerateOtpExcept(e)
    [] o = "verify_otp" -> VerifyOtpExcept(e)
    [] o = "send_story" -> SendStoryExcept(e)
    [] OTHER -> e

\* ------------------------------------------------------------------ Init
Init ==
  /\ client = None
  /\ app_id = None
  /\ app_hash = NoneStr
  /\ handles = << >>
  /\ pc = [t \in Tasks |-> "idle"]
  /\ op = [t \in Tasks |-> "none"]
  /\ args = [t \in Tasks |-> NoArgs]
  /\ entry = [t \in Tasks |-> NoMgr]
  /\ target = [t \in Tasks |-> None]
  /\ made = [t \in Tasks |-> None]
  /\ resp = [t \in Tasks |-> NoResp]
  /\ calls = [t \in Tasks |-> << >>]
  /\ nreq = 0
  /\ uploads = << >>
  /\ nuuid = 0
  /\ upresp = NoResp

\* --------------------------------------------------------------- helpers
\* The part of the state that belongs to coroutine t; no coroutine of the
\* manager's callers touches what upload_image works on.
TaskUpd(t, p, tg, r, cs) ==
  /\ pc' = [pc EXCEPT ![t] = p]
  /\ target' = [target EXCEPT ![t] = tg]
  /\ resp' = [resp EXCEPT ![t] = r]
  /\ calls' = [calls EXCEPT ![t] = cs]
  /\ UNCHANGED upl

\* Coroutine t calls method name of handle h with arguments a and suspends
\* at p; cs are the calls it made before.
InvokeWith(t, name, h, a, p, cs) ==
  TaskUpd(t, p, h, NoResp,
          Append(cs, [op |-> name, h |-> h, arg |-> a, out |-> "pending",
                      ret |-> NoneStr]))

Invoke(t, name, h, p, cs) == InvokeWith(t, name, h, << >>, p, cs)

\* The calls of t once its pending call has come back with out ("ok", the
\* boolean it returned, or the class of the exception it raised) and the
\* value r.
ReturnedWith(t, out, r) ==
  [calls[t] EXCEPT ![Len(calls[t])].out = out, ![Len(calls[t])].ret = r]

Returned(t, out) == ReturnedWith(t, out, NoneStr)

\* Coroutine t ends with result r.
Finish(t, r, cs) == TaskUpd(t, "done", None, r, cs)

\* A new call of function o with credentials a starts on coroutine t: the
\* first idle one, the numbering of coroutines being arbitrary.
Begin(t, o, a) ==
  /\ pc[t] = "idle"
  /\ \A u \in Tasks : pc[u] = "idle" => t <= u
  /\ nreq < MaxReqs
  /\ nreq' = nreq + 1
  /\ op' = [op EXCEPT ![t] = o]
  /\ args' = [args EXCEPT ![t] = a]
  /\ entry' = [entry EXCEPT ![t] = mgr]

InInit(t) == pc[t] \in {"init_disconnect", "init_connect"}
NoInitInProgress == \A t \in Tasks : ~InInit(t)

\* ----------------------------------------------------- initialize_client
\* Lines 45-48: the assignments, the construction of the new handle and the
\* call of connect() on self.client. hs is the list of handles and cs the
\* calls of t when this segment starts.
InitConstruct(t, a, h, hs, cs) ==
  LET new == Len(hs) + 1
      m == InitAssign(a, h, new)
  IN /\ client' = m[1]
     /\ app_id' = m[2]
     /\ app_hash' = m[3]
     /\ handles' = Append(hs, NewHandle(a, h))
     /\ made' = [made EXCEPT ![t] = new]
     /\ IF m[1] = None
        THEN Finish(t, Raised(op'[t], AttributeError), cs)
        ELSE Invoke(t, "connect", m[1], "init_connect", cs)

\* Lines 43-44, then 45-48 when there is nothing to tear down.
InitEntry(t, a, h) ==
  IF InitTeardownNeeded(client)
  THEN /\ UNCHANGED << client, app_id, app_hash, handles >>
       /\ made' = [made EXCEPT ![t] = None]
       /\ IF client = None
          THEN Finish(t, Raised(op'[t], AttributeError), << >>)
          ELSE Invoke(t, "disconnect", client, "init_disconnect", << >>)
  ELSE InitConstruct(t, a, h, handles, << >>)

\* client_manager.initialize_client(app_id, app_hash) called on its own.
Call_initialize_client(t) ==
  \E c \in Creds :
    /\ Begin(t, "initialize_client", CredArgs(c))
    /\ InitEntry(t, c[1], c[2])

\* POST /generate_otp: its first statement calls initialize_client.
Call_generate_otp(t) ==
  \E c \in Creds :
    /\ Begin(t, "generate_otp", CredArgs(c))
    /\ InitEntry(t, c[1], c[2])

\* The old handle's disconnect() returns; lines 45-48 follow.
InitDisconnectOk(t) ==
  /\ pc[t] = "init_disconnect"
  /\ UNCHANGED << op, args, entry, nreq >>
  /\ InitConstruct(t, args[t].app_id, args[t].app_hash,
                   Disconnected(handles, target[t], "initialize_client"),
                   Returned(t, "ok"))

\* initialize_client with lines 45-46 written before the teardown: the
\* credentials are already replaced when disconnect() raises.
InitDisconnectFail_AssignFirst(t) ==
  /\ pc[t] = "init_disconnect"
  /\ app_id' = args[t].app_id
  /\ app_hash' = args[t].app_hash
  /\ Finish(t, Raised(op[t], ExternalFailure), Returned(t, "Exception"))
  /\ UNCHANGED << client, handles, op, args, entry, made, nreq >>

\* The old handle's disconnect() raises: initialize_client is left at line 44.
InitDisconnectFail(t) ==
  /\ pc[t] = "init_disconnect"
  /\ Finish(t, Raised(op[t], ExternalFailure), Returned(t, "Exception"))
  /\ UNCHANGED << client, app_id, app_hash, handles, op, args, entry, made, nreq >>

\* connect() returns: initialize_client returns. generate_otp goes on with
\* get_client() and send_code_request without suspending in between.
InitConnectOk(t) ==
  /\ pc[t] = "init_connect"
  /\ handles' = Connected(handles, target[t])
  /\ IF op[t] = "generate_otp"
     THEN LET r == MgrGetClient(client)
          IN IF r.kind = "return"
             THEN Invoke(t, "send_code_request", r.value, "gen_send_code",
                         Returned(t, "ok"))
             ELSE Finish(t, Raised(op[t], r), Returned(t, "ok"))
     ELSE Finish(t, Ret(<< >>, None), Returned(t, "ok"))
  /\ UNCHANGED << client, app_id, app_hash, op, args, entry, made, nreq >>

\* connect() raises.
InitConnectFail(t) ==
  /\ pc[t] = "init_connect"
  /\ Finish(t, Raised(op[t], ExternalFailure), Returned(t, "Exception"))
  /\ UNCHANGED << client, app_id, app_hash, handles, op, args, entry, made, nreq >>

\* ---------------------------------------------------------- generate_otp
\* send_code_request returns the token the service issued.
SendCodeOk(t) ==
  /\ pc[t] = "gen_send_code"
  /\ \E tok \in Tokens :
       Finish(t, GenerateOtpReturn(tok), ReturnedWith(t, "ok", tok))
  /\ UNCHANGED << client, app_id, app_hash, handles, op, args, entry, made, nreq >>

SendCodeFail(t) ==
  /\ pc[t] = "gen_send_code"
  /\ Finish(t, Raised(op[t], ExternalFailure), Returned(t, "Exception"))
  /\ UNCHANGED << client, app_id, app_hash, handles, op, args, entry, made, nreq >>

\* ------------------------------------------------------------ get_client
\* client_manager.get_client() called on its own: it never suspends.
Call_get_client(t) ==
  /\ Begin(t, "get_client", NoArgs)
  /\ Finish(t, MgrGetClient(client), << >>)
  /\ made' = [made EXCEPT ![t] = None]
  /\ UNCHANGED << client, app_id, app_hash, handles >>

\* ------------------------------------------------------------ disconnect
\* client_manager.disconnect(), as the lifespan handler calls it.
Call_disconnect(t) ==
  /\ Begin(t, "disconnect", NoArgs)
  /\ IF DisconnectNeeded(client)
     THEN IF client = None
          THEN Finish(t, AttributeError, << >>)
          ELSE Invoke(t, "disconnect", client, "disc_wait", << >>)
     ELSE Finish(t, Ret(<< >>, None), << >>)
  /\ made' = [made EXCEPT ![t] = None]
  /\ UNCHANGED << client, app_id, app_hash, handles >>

DisconnectOk(t) ==
  /\ pc[t] = "disc_wait"
  /\ handles' = Disconnected(handles, target[t], "disconnect")
  /\ Finish(t, Ret(<< >>, None), Returned(t, "ok"))
  /\ UNCHANGED << client, app_id, app_hash, op, args, entry, made, nreq >>

DisconnectFail(t) ==
  /\ pc[t] = "disc_wait"
  /\ Finish(t, ExternalFailure, Returned(t, "Exception"))
  /\ UNCHANGED << client, app_id, app_hash, handles, op, args, entry, made, nreq >>

\* ------------------------------------------------------------ verify_otp
\* Lines 105-108: get_client() inside the try block, then sign_in with the
\* request's phone_code_hash k.
VerifyOtpEntry(t, k) ==
  /\ LET r == MgrGetClient(client)
     IN IF r.kind = "return"
        THEN InvokeWith(t, "sign_in", r.value, << k >>, "verify_sign_in", << >>)
        ELSE Finish(t, Raised("verify_otp", r), << >>)
  /\ made' = [made EXCEPT ![t] = None]
  /\ UNCHANGED << client, app_id, app_hash, handles >>

\* POST /verify_otp at any time, with a phone_code_hash the caller kept from
\* some earlier response.
Call_verify_otp(t) ==
  \E k \in { Token } :
    /\ Begin(t, "verify_otp", [NoArgs EXCEPT !.phone_code_hash = k])
    /\ VerifyOtpEntry(t, k)

\* The caller answers the generate_otp response of t at once with a
\* POST /verify_otp that carries the phone_code_hash of that response: the
\* finished coroutine is gone and the new request runs in its place.
Reply_verify_otp(t) ==
  /\ pc[t] = "done" /\ op[t] = "generate_otp" /\ resp[t].kind = "return"
  /\ nreq < MaxReqs
  /\ nreq' = nreq + 1
  /\ LET k == resp[t].detail[1]
     IN /\ op' = [op EXCEPT ![t] = "verify_otp"]
        /\ args' = [args EXCEPT ![t] =
                      [NoArgs EXCEPT !.phone_code_hash = k,
                                     !.issued_on = calls[t][Len(calls[t])].h]]
        /\ entry' = [entry EXCEPT ![t] = mgr]
        /\ VerifyOtpEntry(t, k)

\* sign_in returns: get_me is called on the same local client.
SignInOk(t) ==
  /\ pc[t] = "verify_sign_in"
  /\ Invoke(t, "get_me", target[t], "verify_get_me", Returned(t, "ok"))
  /\ UNCHANGED << client, app_id, app_hash, handles, op, args, entry, made, nreq >>

\* sign_in raises: the wrong code, the two-factor password, or anything else.
SignInFail(t) ==
  /\ pc[t] = "verify_sign_in"
  /\ \E e \in { Exc("PhoneCodeInvalidError", << "The phone code entered was invalid" >>),
                Exc("SessionPasswordNeededError", << "Two-steps verification is enabled" >>),
                ExternalFailure } :
       Finish(t, Raised(op[t], e), Returned(t, e.kind))
  /\ UNCHANGED << client, app_id, app_hash, handles, op, args, entry, made, nreq >>

GetMeOk(t) ==
  /\ pc[t] = "verify_get_me"
  /\ Finish(t, VerifyOtpReturn(FirstName), ReturnedWith(t, "ok", FirstName))
  /\ UNCHANGED << client, app_id, app_hash, handles, op, args, entry, made, nreq >>

GetMeFail(t) ==
  /\ pc[t] = "verify_get_me"
  /\ Finish(t, Raised(op[t], ExternalFailure), Returned(t, "Exception"))
  /\ UNCHANGED << client, app_id, app_hash, handles, op, args, entry, made, nreq >>

\* ------------------------------------------------------------ send_story
\* POST /send_story: Depends(get_client) is resolved before the handler's
\* body, outside its try block, so its HTTPException is the response.
Call_send_story(t) ==
  /\ Begin(t, "send_story", NoArgs)
  /\ LET r == MgrGetClient(client)
     IN IF r.kind = "return"
        THEN Invoke(t, "is_user_authorized", r.value, "story_authorized", << >>)
        ELSE Finish(t, r, << >>)
  /\ made' = [made EXCEPT ![t] = None]
  /\ UNCHANGED << client, app_id, app_hash, handles >>

\* is_user_authorized returns a boolean: line 125 raises inside the try
\* block, or upload_file is called (the argument of SendStoryRequest is
\* evaluated first).
AuthorizedReturn(t) ==
  /\ pc[t] = "story_authorized"
  /\ \E authorized \in BOOLEAN :
       LET cs == Returned(t, IF authorized THEN "True" ELSE "False")
       IN IF StoryRejected(authorized)
          THEN Finish(t, Raised(op[t], UnauthorizedExc), cs)
          ELSE Invoke(t, "upload_file", target[t], "story_upload", cs)
  /\ UNCHANGED << client, app_id, app_hash, handles, op, args, entry, made, nreq >>

AuthorizedFail(t) ==
  /\ pc[t] = "story_authorized"
  /\ Finish(t, Raised(op[t], ExternalFailure), Returned(t, "Exception"))
  /\ UNCHANGED << client, app_id, app_hash, handles, op, args, entry, made, nreq >>

\* upload_file returns a file reference: the SendStoryRequest is built
\* with it and the privacy rules, and sent.
UploadOk(t) ==
  /\ pc[t] = "story_upload"
  /\ \E f \in FileRefs :
       InvokeWith(t, "SendStoryRequest", target[t], << f >> \o StoryPrivacyRules,
                  "story_send", ReturnedWith(t, "ok", f))
  /\ UNCHANGED << client, app_id, app_hash, handles, op, args, entry, made, nreq >>

UploadFail(t) ==
  /\ pc[t] = "story_upload"
  /\ Finish(t, Raised(op[t], ExternalFailure), Returned(t, "Exception"))
  /\ UNCHANGED << client, app_id, app_hash, handles, op, args, entry, made, nreq >>

SendStoryOk(t) ==
  /\ pc[t] = "story_send"
  /\ Finish(t, Ret(<< "Story sent successfully" >>, None), Returned(t, "ok"))
  /\ UNCHANGED << client, app_id, app_hash, handles, op, args, entry, made, nreq >>

SendStoryFail(t) ==
  /\ pc[t] = "story_send"
  /\ Finish(t, Raised(op[t], ExternalFailure), Returned(t, "Exception"))
  /\ UNCHANGED << client, app_id, app_hash, handles, op, args, entry, made, nreq >>

\* ---------------------------------------------------------- upload_image
\* str.rfind, counting from 1: the last position of c in p, 0 when absent.
RFind(p, c) ==
  LET I == { i \in DOMAIN p : p[i] = c }
  IN IF I = {} THEN 0 ELSE CHOOSE i \in I : \A j \in I : j <= i

\* os.path.splitext (posixpath): the name is split at its last dot when that
\* dot lies in the last path component and something other than dots comes
\* before it there; otherwise the extension is empty.
SplitExt(p) ==
  LET sepIndex == RFind(p, "/")
      dotIndex == RFind(p, ".")
  IN IF /\ dotIndex > sepIndex
        /\ \E k \in (sepIndex + 1)..(dotIndex - 1) : p[k] # "."
     THEN << SubSeq(p, 1, dotIndex - 1), SubSeq(p, dotIndex, Len(p)) >>
     ELSE << p, << >> >>

\* str(uuid4()) of the n-th call: a value no other call draws.
Uuid4(n) == ToString(n)

\* upload_image that drops the extension.
UniqueFilename_NoExt(id, file_extension) == << id >>

\* Line 78: f"{uuid4()}{file_extension}".
UniqueFilename(id, file_extension) == << id >> \o file_extension

\* Line 86: f"/uploads/{unique_filename}".
FileUri(unique_filename) == << "/uploads/" >> \o unique_filename

\* Line 88: the body returned.
UploadReturn(file_uri) ==
  [kind |-> "return", status |-> 200,
   detail |-> << "Image uploaded successfully" >>, value |-> None,
   file_uri |-> file_uri]

\* open() or copyfileobj() failing.
OSError == Exc("OSError", << "cannot write" >>)

\* upload_image: `except Exception as e`.
UploadExcept(e) == HTTPExc(500, StrExc(e))

\* POST /upload_image: the handler never suspends. saved tells whether
\* lines 82-83 wrote the file.
Call_upload_image ==
  /\ nuuid < MaxUploads
  /\ \E name \in Names, saved \in BOOLEAN :
       LET file_extension == SplitExt(name)[2]
           id == Uuid4(nuuid + 1)
           unique_filename == UniqueFilename(id, file_extension)
           file_uri == FileUri(unique_filename)
       IN IF saved
          THEN /\ uploads' = Append(uploads, [filename |-> name, id |-> id,
                                              file_uri |-> file_uri])
               /\ upresp' = UploadReturn(file_uri)
          ELSE /\ uploads' = uploads
               /\ upresp' = UploadExcept(OSError)
  /\ nuuid' = nuuid + 1
  /\ UNCHANGED << client, app_id, app_hash, handles, pc, op, args, entry,
                  target, made, resp, calls, nreq >>

\* ------------------------------------------------------- specifications
\* The calls that do not initialize the manager.
OtherCall(t) ==
  \/ Call_get_client(t)
  \/ Call_disconnect(t)
  \/ Call_verify_otp(t)
  \/ Call_send_story(t)

\* An external call comes back and the suspended coroutine runs on.
Resume(t) ==
  \/ InitDisconnectOk(t) \/ InitDisconnectFail(t)
  \/ InitConnectOk(t) \/ InitConnectFail(t)
  \/ SendCodeOk(t) \/ SendCodeFail(t)
  \/ DisconnectOk(t) \/ DisconnectFail(t)
  \/ SignInOk(t) \/ SignInFail(t)
  \/ GetMeOk(t) \/ GetMeFail(t)
  \/ AuthorizedReturn(t) \/ AuthorizedFail(t)
  \/ UploadOk(t) \/ UploadFail(t)
  \/ SendStoryOk(t) \/ SendStoryFail(t)

\* The result of a finished call has been delivered to the caller: the
\* coroutine is gone.
Delivered(t) ==
  /\ pc[t] = "done"
  /\ pc' = [pc EXCEPT ![t] = "idle"]
  /\ op' = [op EXCEPT ![t] = "none"]
  /\ args' = [args EXCEPT ![t] = NoArgs]
  /\ entry' = [entry EXCEPT ![t] = NoMgr]
  /\ made' = [made EXCEPT ![t] = None]
  /\ resp' = [resp EXCEPT ![t] = NoResp]
  /\ calls' = [calls EXCEPT ![t] = << >>]
  /\ UNCHANGED << client, app_id, app_hash, handles, target, nreq, upl >>

\* A finished call's result is delivered before the event loop runs the
\* next segment.
NoneDone == \A t \in Tasks : pc[t] # "done"

AllIdle == \A t \in Tasks : pc[t] = "idle"

\* The event loop: any number of handlers in flight, interleaved at their
\* awaits, nothing serializing initialize_client.
Next ==
  \E t \in Tasks :
    \/ NoneDone /\ Call_initialize_client(t)
    \/ NoneDone /\ Call_generate_otp(t)
    \/ NoneDone /\ OtherCall(t)
    \/ NoneDone /\ Resume(t)
    \/ Delivered(t)
    \/ Reply_verify_otp(t)

Spec == Init /\ [][Next]_vars

\* The single-writer use the manager is designed for: an initialize_client
\* starts only when no other one is in progress; other calls interleave.
NextSW ==
  \E t \in Tasks :
    \/ NoneDone /\ NoInitInProgress /\ Call_initialize_client(t)
    \/ NoneDone /\ NoInitInProgress /\ Call_generate_otp(t)
    \/ NoneDone /\ OtherCall(t)
    \/ NoneDone /\ Resume(t)
    \/ Delivered(t)
    \/ Reply_verify_otp(t)

SpecSW == Init /\ [][NextSW]_vars

\* One call at a time, each run to its end before the next starts: the
\* single-operator use, and the way a unit test drives the manager.
NextSeq ==
  \E t \in Tasks :
    \/ AllIdle /\ Call_initialize_client(t)
    \/ AllIdle /\ Call_generate_otp(t)
    \/ AllIdle /\ OtherCall(t)
    \/ Resume(t)
    \/ Delivered(t)
    \/ Reply_verify_otp(t)

SpecSeq == Init /\ [][NextSeq]_vars

\* The upload endpoint alone.
NextUpload == Call_upload_image

SpecUpload == Init /\ [][NextUpload]_vars

\* ================================================================ claims
InitOps == {"initialize_client", "generate_otp"}

\* C1: get_client on a manager that holds no handle (initialize_client was
\* never called) fails with HTTPException 400 "Client not initialized" and
\* returns no handle.
C1_GetBeforeInit ==
  \A t \in Tasks :
    (pc[t] = "done" /\ op[t] = "get_client" /\ client = None)
      => /\ resp[t].kind = "HTTPException"
         /\ resp[t].status = 400
         /\ resp[t].detail = << "Client not initialized" >>
         /\ resp[t].value = None

C1_Witness ==
  \E t \in Tasks :
    /\ pc[t] = "done" /\ op[t] = "get_client"
    /\ client = None /\ handles = << >>
    /\ resp[t].status = 400

\* C2: when the connect() of an initialize_client call returns (the call
\* completes successfully), whether or not the manager held a handle before,
\* a get_client that follows at once returns the handle this call
\* constructed, and that handle is connected; in generate_otp the handle
\* get_client hands to send_code_request is that handle. (Checked with no
\* other initialize_client overlapping the call.)
C2_Step ==
  \A t \in Tasks :
    ( /\ pc[t] = "init_connect" /\ pc'[t] # "init_connect"
      /\ calls'[t][Len(calls[t])].out = "ok" )
      => /\ made[t] # None
         /\ MgrGetClient(client') = Ret(<< >>, made[t])
         /\ handles'[made[t]].connected
         /\ handles'[made[t]].app_id = args[t].app_id
         /\ handles'[made[t]].app_hash = args[t].app_hash
         /\ op[t] = "generate_otp" => target'[t] = made[t]

C2_InitThenGet == [][C2_Step]_vars

C2_Witness ==
  \E t \in Tasks :
    /\ pc[t] = "done" /\ op[t] = "initialize_client"
    /\ resp[t].kind = "return"
    /\ entry[t][1] # None
    /\ client = made[t] /\ client # entry[t][1]
    /\ handles[client].connected

\* C3: with initialize_client calls not overlapping, a call that finds a
\* handle calls disconnect on it first and connect on the new handle only
\* after that disconnect has returned and closed the old transport; the
\* manager holds the new handle when the call returns; and at no time is a
\* handle other than the manager's current one connected, however many
\* re-initializations came before.
C3_ReinitNoLeak ==
  /\ \A i \in DOMAIN handles : handles[i].connected => i = client
  /\ \A t \in Tasks :
       (op[t] \in InitOps /\ entry[t][1] # None) =>
         LET old == entry[t][1]
         IN /\ Len(calls[t]) >= 1
            /\ calls[t][1].op = "disconnect" /\ calls[t][1].h = old
            /\ made[t] # None =>
                 /\ calls[t][1].out = "ok"
                 /\ ~handles[old].connected
                 /\ made[t] # old
                 /\ Len(calls[t]) >= 2
                 /\ calls[t][2].op = "connect" /\ calls[t][2].h = made[t]
                 /\ (InInit(t) \/ (pc[t] = "done" /\ op[t] = "initialize_client"))
                      => client = made[t]

\* Two re-initializations in a row: the third handle is the only one
\* connected.
C3_Witness ==
  \E t \in Tasks :
    /\ pc[t] = "done" /\ op[t] \in InitOps /\ resp[t].kind = "return"
    /\ made[t] = 3 /\ client = 3
    /\ handles[3].connected
    /\ handles[1].closer = "initialize_client"
    /\ handles[2].closer = "initialize_client"

\* C4: disconnect on a manager that holds no handle calls nothing on the
\* external client, raises nothing (it returns None) and leaves client,
\* app_id and app_hash as they were. No step of any disconnect call changes
\* the manager's fields, so repeated calls leave the state of one call; and a
\* disconnect call fails only when the external disconnect() it made raised.
C4_Inv ==
  \A t \in Tasks :
    op[t] = "disconnect" =>
      /\ entry[t][1] = None =>
           /\ pc[t] = "done"
           /\ resp[t] = Ret(<< >>, None)
           /\ calls[t] = << >>
           /\ mgr = entry[t]
      /\ (pc[t] = "done" /\ resp[t].kind # "return") =>
           /\ Len(calls[t]) = 1
           /\ calls[t][1].out = "Exception"

C4_Step ==
  \A t \in Tasks :
    (op'[t] = "disconnect" /\ pc'[t] # pc[t]) => mgr' = mgr

C4_DisconnectNoHandle == []C4_Inv /\ [][C4_Step]_vars

\* The third call in a row on a manager without a handle is a disconnect.
C4_Witness ==
  \E t \in Tasks :
    /\ pc[t] = "done" /\ op[t] = "disconnect"
    /\ entry[t][1] = None /\ client = None
    /\ nreq = MaxReqs
    /\ resp[t].kind = "return"

\* A call has ended, or is suspended, after the external call named o came
\* back with out.
CameBack(t, o, out) ==
  \E i \in DOMAIN calls[t] : calls[t][i].op = o /\ calls[t][i].out = out

\* The call of t has called o on the external client.
Called(t, o) == \E i \in DOMAIN calls[t] : calls[t][i].op = o

\* C5: once disconnect has completed on an initialized manager the manager
\* holds no handle: get_client does not return a handle whose transport
\* disconnect has closed (it fails as not initialized instead).
C5_GetAfterDisconnect ==
  \A t \in Tasks :
    (pc[t] = "done" /\ op[t] = "get_client" /\ resp[t].kind = "return")
      => ~( /\ ~handles[resp[t].value].connected
            /\ handles[resp[t].value].closer = "disconnect" )

\* C6: verify_otp and send_story, arriving while the manager holds no
\* handle, answer 400 "Client not initialized" and call nothing on the
\* external client.
C6_NoHandleIsClientError ==
  \A t \in Tasks :
    (pc[t] = "done" /\ op[t] \in {"verify_otp", "send_story"}
       /\ entry[t][1] = None)
      => /\ resp[t] = NotInitialized
         /\ calls[t] = << >>

\* C7: in send_story, once is_user_authorized has returned false the request
\* is over with an error response, and the request has called neither
\* upload_file nor SendStoryRequest.
C7_UnauthorizedNoUpload ==
  \A t \in Tasks :
    (op[t] = "send_story" /\ CameBack(t, "is_user_authorized", "False"))
      => /\ pc[t] = "done"
         /\ resp[t].kind = "HTTPException"
         /\ resp[t].status >= 400
         /\ ~Called(t, "upload_file")
         /\ ~Called(t, "SendStoryRequest")
         /\ Len(calls[t]) = 1

C7_Witness ==
  \E t \in Tasks :
    /\ pc[t] = "done" /\ op[t] = "send_story"
    /\ Len(calls[t]) = 1
    /\ calls[t][1].op = "is_user_authorized"
    /\ calls[t][1].h = client
    /\ calls[t][1].out = "False"
    /\ resp[t].kind = "HTTPException"

\* C8: a send_story request for which is_user_authorized returned false is
\* answered with status 401.
C8_Unauthorized401 ==
  \A t \in Tasks :
    (pc[t] = "done" /\ op[t] = "send_story"
       /\ CameBack(t, "is_user_authorized", "False"))
      => resp[t].status = 401

\* C9: in verify_otp, when sign_in raised PhoneCodeInvalidError the response
\* is 401 "Invalid code provided." and not the 500 one, and get_me is not
\* called; no step of a verify_otp request changes the manager's fields or
\* any handle's transport, so the same handle is there for a retry.
C9_Inv ==
  \A t \in Tasks :
    (op[t] = "verify_otp" /\ CameBack(t, "sign_in", "PhoneCodeInvalidError"))
      => /\ pc[t] = "done"
         /\ resp[t].kind = "HTTPException"
         /\ resp[t].status = 401
         /\ resp[t].detail = << "Invalid code provided." >>
         /\ resp[t].status # 500
         /\ ~Called(t, "get_me")

C9_Step ==
  \A t \in Tasks :
    (op'[t] = "verify_otp" /\ pc'[t] # pc[t])
      => /\ mgr' = mgr
         /\ handles' = handles

C9_InvalidCode == []C9_Inv /\ [][C9_Step]_vars

C9_Witness ==
  \E t \in Tasks :
    /\ pc[t] = "done" /\ op[t] = "verify_otp"
    /\ CameBack(t, "sign_in", "PhoneCodeInvalidError")
    /\ resp[t] = InvalidCodeResponse
    /\ client = entry[t][1] /\ client # None

\* C10: in verify_otp, when sign_in raised SessionPasswordNeededError the
\* response is the 401 two-step-verification one, which is neither the
\* invalid-code response nor a 500, and get_me is not called.
C10_TwoFactor ==
  \A t \in Tasks :
    (op[t] = "verify_otp" /\ CameBack(t, "sign_in", "SessionPasswordNeededError"))
      => /\ pc[t] = "done"
         /\ resp[t].kind = "HTTPException"
         /\ resp[t].status = 401
         /\ resp[t].detail =
              << "Two-step verification is enabled. Please provide the password." >>
         /\ resp[t] # InvalidCodeResponse
         /\ resp[t].status # 500
         /\ ~Called(t, "get_me")

C10_Witness ==
  \E t \in Tasks :
    /\ pc[t] = "done" /\ op[t] = "verify_otp"
    /\ CameBack(t, "sign_in", "SessionPasswordNeededError")
    /\ resp[t] = TwoStepResponse

\* The handles whose transport is connected.
Live == { i \in DOMAIN handles : handles[i].connected }

\* C12: in every reachable state, interleavings of generate_otp requests
\* included, at most one handle the manager created is connected.
C12_AtMostOneLive == Cardinality(Live) <= 1

\* C13: once no initialize_client call is in progress (overlapping calls
\* have all completed), the manager holds the handle assigned last, and
\* every other handle it ever created is disconnected.
C13_LastWinsNoLeak ==
  NoInitInProgress =>
    /\ handles # << >> => client = Len(handles)
    /\ \A i \in DOMAIN handles : i # client => ~handles[i].connected

\* C17: a generate_otp request calls send_code_request only when the
\* connect() of its own initialize_client has returned, and on a handle
\* that is connected and carries the request's own app_id and app_hash.
C17_Step ==
  \A t \in Tasks :
    (pc[t] # "gen_send_code" /\ pc'[t] = "gen_send_code")
      => LET h == target'[t]
         IN /\ CameBack(t, "connect", "ok")'
            /\ handles'[h].connected
            /\ handles'[h].app_id = args[t].app_id
            /\ handles'[h].app_hash = args[t].app_hash

C17_SendCodeOnOwnHandle == [][C17_Step]_vars

\* C19: when the old handle's disconnect() raises inside initialize_client,
\* the call ends in failure without constructing a handle or calling
\* connect, and the step leaves client, app_id, app_hash and every handle
\* as they were.
C19_Inv ==
  \A t \in Tasks :
    (op[t] \in InitOps /\ CameBack(t, "disconnect", "Exception"))
      => /\ pc[t] = "done"
         /\ resp[t].kind # "return"
         /\ made[t] = None
         /\ Len(calls[t]) = 1
         /\ ~Called(t, "connect")

C19_Step ==
  \A t \in Tasks :
    (pc[t] = "init_disconnect" /\ pc'[t] = "done")
      => /\ mgr' = mgr
         /\ handles' = handles

C19_TeardownFailure == []C19_Inv /\ [][C19_Step]_vars

\* The failed call carried credentials other than the ones in place.
C19_Witness ==
  \E t \in Tasks :
    /\ pc[t] = "done" /\ op[t] \in InitOps
    /\ CameBack(t, "disconnect", "Exception")
    /\ client = entry[t][1] /\ client # None
    /\ app_id = entry[t][2] /\ app_id # args[t].app_id
    /\ Len(handles) = 1

C18_HeldHandleConnected ==
  \A t \in Tasks :
    (pc[t] = "done" /\ op[t] \in InitOps /\ CameBack(t, "connect", "Exception"))
      => MgrGetClient(client).value # made[t]

\* C16: a send_story request calls is_user_authorized, then upload_file,
\* then SendStoryRequest, all on the handle get_client gave it; upload_file
\* is called only once is_user_authorized has returned True, and
\* SendStoryRequest only once upload_file has returned, with the file
\* reference upload_file returned and the contacts-only privacy rule; when
\* upload_file raises the request is over and SendStoryRequest is not called.
C16_StoryOrder ==
  \A t \in Tasks :
    op[t] = "send_story" =>
      LET cs == calls[t]
      IN /\ Len(cs) <= 3
         /\ Len(cs) >= 1 =>
              /\ cs[1].op = "is_user_authorized"
              /\ cs[1].h = entry[t][1]
         /\ Len(cs) >= 2 =>
              /\ cs[1].out = "True"
              /\ cs[2].op = "upload_file"
              /\ cs[2].h = cs[1].h
         /\ Len(cs) >= 3 =>
              /\ cs[2].out = "ok"
              /\ cs[2].ret \in FileRefs
              /\ cs[3].op = "SendStoryRequest"
              /\ cs[3].h = cs[1].h
              /\ cs[3].arg = << cs[2].ret, "InputPrivacyValueAllowContacts" >>
         /\ CameBack(t, "upload_file", "Exception") =>
              /\ pc[t] = "done"
              /\ ~Called(t, "SendStoryRequest")

\* The story went out with the second file reference.
C16_Witness ==
  \E t \in Tasks :
    /\ pc[t] = "done" /\ op[t] = "send_story"
    /\ resp[t].kind = "return"
    /\ Len(calls[t]) = 3
    /\ calls[t][2].ret = "file2"
    /\ calls[t][3].arg[1] = "file2"
    /\ calls[t][3].out = "ok"

\* The three endpoints that use the external client.
Endpoints == {"generate_otp", "verify_otp", "send_story"}

\* The external call the request of t made last raised a plain failure.
FailedExternally(t) ==
  /\ calls[t] # << >>
  /\ calls[t][Len(calls[t])].out = "Exception"

\* Every request of the three endpoints ends in a response, and one whose
\* external call failed (not with invalid-code or two-factor-required) ends
\* in the 500 response carrying the failure's message.
C15_Failure500 ==
  \A t \in Tasks :
    (pc[t] = "done" /\ op[t] \in Endpoints) =>
      /\ resp[t].kind \in {"return", "HTTPException"}
      /\ FailedExternally(t) =>
           resp[t] = HTTPExc(500, << "external failure" >>)

\* The response of t is one of verify_otp's two authentication responses.
AuthSpecific(t) ==
  /\ op[t] = "verify_otp"
  /\ CameBack(t, "sign_in", "PhoneCodeInvalidError")
       \/ CameBack(t, "sign_in", "SessionPasswordNeededError")
  /\ resp[t] \in {InvalidCodeResponse, TwoStepResponse}

\* C15 as stated: external failures give the generic 500, and a response
\* that is neither a success nor the generic 500 is one of the two
\* authentication responses of verify_otp.
C15_OnlyAuthSpecific ==
  /\ C15_Failure500
  /\ \A t \in Tasks :
       (pc[t] = "done" /\ op[t] \in Endpoints
          /\ resp[t].kind # "return" /\ resp[t].status # 500)
         => AuthSpecific(t)

\* C15, amended: external failures give the generic 500, and a response
\* that is neither a success nor the generic 500 is one of the two
\* authentication responses of verify_otp or the 400 "Client not
\* initialized" of a send_story that found no handle.
C15_Amended ==
  /\ C15_Failure500
  /\ \A t \in Tasks :
       (pc[t] = "done" /\ op[t] \in Endpoints
          /\ resp[t].kind # "return" /\ resp[t].status # 500)
         => \/ AuthSpecific(t)
            \/ /\ op[t] = "send_story"
               /\ entry[t][1] = None
               /\ calls[t] = << >>
               /\ resp[t] = NotInitialized

\* The new handle's connect() failed inside generate_otp after the old
\* handle was torn down.
C15_Witness ==
  \E t \in Tasks :
    /\ pc[t] = "done" /\ op[t] = "generate_otp"
    /\ Len(calls[t]) = 2
    /\ CameBack(t, "connect", "Exception")
    /\ resp[t] = HTTPExc(500, << "external failure" >>)

\* C11: one call at a time. A generate_otp that succeeds returns the
\* phone_code_hash send_code_request returned, having called it on the
\* handle it constructed, which the manager holds. The verify_otp the caller
\* sends next with that phone_code_hash calls sign_in with it on that handle
\* and, sign_in accepted, get_me on the same handle; when get_me has
\* returned the response is the success message with the user's first name.
C11_OtpRoundTrip ==
  \A t \in Tasks :
    /\ (pc[t] = "done" /\ op[t] = "generate_otp" /\ resp[t].kind = "return") =>
         LET c == calls[t][Len(calls[t])]
         IN /\ c.op = "send_code_request" /\ c.out = "ok"
            /\ c.ret \in Tokens
            /\ resp[t] = Ret(<< c.ret >>, None)
            /\ c.h = made[t] /\ client = made[t]
    /\ (op[t] = "verify_otp" /\ args[t].issued_on # None) =>
         LET h == args[t].issued_on
             cs == calls[t]
         IN /\ Len(cs) >= 1
            /\ Len(cs) <= 2
            /\ cs[1].op = "sign_in" /\ cs[1].h = h
            /\ cs[1].arg = << args[t].phone_code_hash >>
            /\ args[t].phone_code_hash \in Tokens
            /\ cs[1].out = "ok" =>
                 /\ Len(cs) = 2
                 /\ cs[2].op = "get_me" /\ cs[2].h = h
            /\ (Len(cs) = 2 /\ cs[2].out = "ok") =>
                 /\ pc[t] = "done"
                 /\ resp[t] = Ret(<< "Authenticated as ", cs[2].ret >>, None)
                 /\ cs[2].ret = FirstName

\* The second token was issued on the first handle and verified on it.
C11_Witness ==
  \E t \in Tasks :
    /\ pc[t] = "done" /\ op[t] = "verify_otp"
    /\ args[t].issued_on = 1 /\ client = 1
    /\ args[t].phone_code_hash = "T2"
    /\ calls[t][1].arg = << "T2" >>
    /\ resp[t] = Ret(<< "Authenticated as ", FirstName >>, None)

\* The last component of a path.
BaseName(p) == SubSeq(p, RFind(p, "/") + 1, Len(p))

\* The extension of a filename: what starts at the last dot of its last
\* component that has something other than dots before it; empty when there
\* is no such dot.
Extension(p) ==
  LET b == BaseName(p)
      D == { i \in DOMAIN b : b[i] = "." /\ \E k \in 1..(i - 1) : b[k] # "." }
  IN IF D = {} THEN << >>
     ELSE SubSeq(b, CHOOSE i \in D : \A j \in D : j <= i, Len(b))

\* C14: any two files upload_image has saved, whatever their original
\* names, got different paths; each path is "/uploads/", then the identifier
\* generated for that upload, then the extension of the original filename
\* and nothing else, so it is not "/uploads/" followed by the original name.
C14_UploadPaths ==
  \A i \in DOMAIN uploads :
    LET u == uploads[i]
    IN /\ u.file_uri = << "/uploads/", u.id >> \o Extension(u.filename)
       /\ u.file_uri # << "/uploads/" >> \o u.filename
       /\ \A j \in DOMAIN uploads :
            i # j => u.file_uri # uploads[j].file_uri

\* Two uploads of a file named a.a.
C14_Witness ==
  /\ Len(uploads) = 2
  /\ uploads[1].filename = << "a", ".", "a" >>
  /\ uploads[2].filename = << "a", ".", "a" >>
  /\ uploads[1].file_uri = << "/uploads/", "1", ".", "a" >>
  /\ uploads[2].file_uri = << "/uploads/", "2", ".", "a" >>
  /\ upresp.kind = "return"

====
